---- MODULE Spec2Model ----
(***************************************************************************)
(* The ColBERT retriever of neural_cherche/retrieve/colbert.py: the        *)
(* embedding store filled by add, the batched late-interaction scoring of  *)
(* __call__ and the top-k selection of _rank.                              *)
(*                                                                         *)
(* A token embedding is a sequence of integers, an embedding (one query or *)
(* one document) a sequence of token embeddings.  A python exception is    *)
(* the status "raised" of an outcome record; it aborts the whole call.     *)
(***************************************************************************)
EXTENDS Integers, Sequences, FiniteSets, TLC

VARIABLES
    key,                  \* self.key
    topk_tie_order,       \* the order torch.topk of this build gives equal values
    documents,            \* self.documents
    documents_embeddings, \* self.documents_embeddings
    first_added,          \* history: <<identifier, embedding>> in order of first add
    ignored,              \* history: the last operation was an add that held a
                          \* stored identifier with another embedding
    queries_embeddings,   \* the arguments of the last __call__
    batch_size,
    k,
    scores,               \* scores of __call__ when it calls _rank
    top_k,                \* top_k of _rank, one per query
    result                \* what the last __call__ returned, or that it raised

vars == <<key, topk_tie_order, documents, documents_embeddings, first_added,
          ignored, queries_embeddings, batch_size, k, scores, top_k, result>>

(***************************************************************************)
(* Bounds of the model and the arguments the callers draw from.            *)
(***************************************************************************)
MaxDocs == 2

MaxTokens == 2

MaxQueries == 2

MaxBatchSize == 2

\* The token embeddings the encoder hands over: all of dimension two, not
\* normalised, with dot products of both signs.
TokenVectors == {<<1, 0>>, <<-1, 1>>}

KeyFields == {"id", "similarity"}

\* k = None is the empty sequence, k = n the sequence <<n>>.
None == <<>>

KValues == {None} \cup {<<n>> : n \in (0 - 1)..(MaxDocs + 1)}

\* The places torch.topk may give equal values: first index first, or last.
TieOrders ==
    {[i \in 1..MaxDocs |-> i], [i \in 1..MaxDocs |-> MaxDocs + 1 - i]}

\* The dictionaries a caller passes to add: distinct keys, in the caller's order.
RECURSIVE KeyOrders(_)
KeyOrders(S) ==
    {<<>>} \cup UNION {{<<x>> \o o : o \in KeyOrders(S \ {x})} : x \in S}

Dictionaries(keys, embeddings) ==
    UNION {{[i \in 1..Len(o) |-> <<o[i], e[i]>>] : e \in [1..Len(o) -> embeddings]}
           : o \in KeyOrders(keys) \ {<<>>}}

\* Specification Spec: up to MaxDocs documents of one or two tokens, up to
\* MaxQueries queries of one token, every k.
DocumentKeys == {100 + i : i \in 1..MaxDocs}

DocumentEmbeddings == {<<<<1, 0>>>>, <<<<-1, 1>>>>, <<<<-1, 1>>, <<1, 0>>>>}

AddArguments == Dictionaries(DocumentKeys, DocumentEmbeddings)

QueryEmbeddings == {<<<<1, 0>>>>, <<<<-1, 1>>>>}

QueriesArguments == UNION {[1..n -> QueryEmbeddings] : n \in 0..MaxQueries}

\* Specification SpecScore: two documents and one query of zero to MaxTokens
\* tokens each, k = None.
Embeddings == UNION {[1..n -> TokenVectors] : n \in 0..MaxTokens}

ScoreAddArguments == Dictionaries({101, 102}, Embeddings)

ScoreQueriesArguments == {<<q>> : q \in Embeddings}

(***************************************************************************)
(* Arithmetic on sequences.                                                *)
(***************************************************************************)
Min(a, b) == IF a <= b THEN a ELSE b

RECURSIVE SumSeq(_)
SumSeq(s) == IF Len(s) = 0 THEN 0 ELSE Head(s) + SumSeq(Tail(s))

RECURSIVE MinSeq(_)
MinSeq(s) ==
    IF Len(s) = 1 THEN s[1]
    ELSE LET m == MinSeq(Tail(s)) IN IF s[1] <= m THEN s[1] ELSE m

\* torch max over a dimension of non-zero size
RECURSIVE MaxSeq(_)
MaxSeq(s) ==
    IF Len(s) = 1 THEN s[1]
    ELSE LET m == MaxSeq(Tail(s)) IN IF s[1] >= m THEN s[1] ELSE m

\* the contraction over h of the einsum
DotProduct(u, v) == SumSeq([h \in 1..Len(u) |-> u[h] * v[h]])

RECURSIVE Concat(_)
Concat(ss) == IF Len(ss) = 0 THEN <<>> ELSE Head(ss) \o Concat(Tail(ss))

(***************************************************************************)
(* __call__: the scores of one query against the store, batch by batch.    *)
(***************************************************************************)
Raised == [status |-> "raised", value |-> <<>>]

Returned(v) == [status |-> "returned", value |-> v]

\* utils.batchify: consecutive slices of batch_size items, the last one shorter
Batchify(X, size) ==
    [b \in 1..((Len(X) + size - 1) \div size) |->
        SubSeq(X, (b - 1) * size + 1, Min(b * size, Len(X)))]

\* torch.stack accepts tensors of one shape only
StackRaises(tensors) ==
    \E i, j \in 1..Len(tensors) : Len(tensors[i]) # Len(tensors[j])

\* einsum "sh,bth->bst"
Einsum(embedding_query, embeddings_batch_documents) ==
    [b \in 1..Len(embeddings_batch_documents) |->
        [s \in 1..Len(embedding_query) |->
            [t \in 1..Len(embeddings_batch_documents[b]) |->
                DotProduct(embedding_query[s], embeddings_batch_documents[b][t])]]]

\* max(dim=2) raises when the document-token axis of the stacked batch has
\* size zero, whatever the size of the query-token axis; an axis of non-zero
\* size under an empty query is reduced without error
MaxRaises(embeddings_batch_documents) ==
    Len(embeddings_batch_documents[1]) = 0

\* .max(dim=2).values.sum(axis=1): a sum over no query token is 0
MaxSum(query_documents_scores) ==
    [b \in 1..Len(query_documents_scores) |->
        SumSeq([s \in 1..Len(query_documents_scores[b]) |->
                    MaxSeq(query_documents_scores[b][s])])]

\* the tensors of one batch, looked up by document[self.key]
BatchEmbeddings(batch_query_documents, embs, key_field) ==
    [i \in 1..Len(batch_query_documents) |->
        embs[batch_query_documents[i][key_field]]]

\* one batch raises in torch.stack or in max; neither looks at the query
BatchRaises(batch_query_documents, embs, key_field) ==
    LET embeddings_batch_documents ==
            BatchEmbeddings(batch_query_documents, embs, key_field)
    IN  StackRaises(embeddings_batch_documents)
            \/ MaxRaises(embeddings_batch_documents)

\* one batch that does not raise: stack, einsum, max, sum
BatchScores(embedding_query, batch_query_documents, embs, key_field) ==
    MaxSum(Einsum(embedding_query,
                  BatchEmbeddings(batch_query_documents, embs, key_field)))

\* the inner loop of __call__ raises in a batch, or in torch.cat on an empty
\* list of batches
QueryRaises(docs, embs, size, key_field) ==
    LET batches == Batchify(docs, size)
    IN  \/ Len(batches) = 0
        \/ \E b \in 1..Len(batches) : BatchRaises(batches[b], embs, key_field)

\* the inner loop of __call__ and torch.cat, when no batch raises
QueryScores(embedding_query, docs, embs, size, key_field) ==
    LET batches == Batchify(docs, size)
    IN  Concat([b \in 1..Len(batches) |->
                   BatchScores(embedding_query, batches[b], embs, key_field)])

\* the score vectors filed last query first
ScoresReversed(queries, docs, embs, size, key_field) ==
    IF Len(queries) > 0 /\ QueryRaises(docs, embs, size, key_field)
    THEN Raised
    ELSE Returned([i \in 1..Len(queries) |->
                      QueryScores(queries[Len(queries) + 1 - i], docs, embs,
                                  size, key_field)])

\* the outer loop of __call__: one score vector per query, in the caller's
\* order; the first query that raises ends the call
Scores(queries, docs, embs, size, key_field) ==
    IF Len(queries) > 0 /\ QueryRaises(docs, embs, size, key_field)
    THEN Raised
    ELSE Returned([i \in 1..Len(queries) |->
                      QueryScores(queries[i], docs, embs, size, key_field)])

(***************************************************************************)
(* _rank: torch.topk and the merge of each record with its score.          *)
(***************************************************************************)
\* the k handed to torch.topk
ClampK(kk, n) == IF kk = None THEN n ELSE Min(kk[1], n)

\* torch.topk with largest=False
PrecedesSmallest(query_scores, tie_order, i, j) ==
    \/ query_scores[i] < query_scores[j]
    \/ query_scores[i] = query_scores[j] /\ tie_order[i] < tie_order[j]

\* torch.topk leaves the order of equal values to the build: tie_order[i] is
\* the place the build gives index i among equal values
Precedes(query_scores, tie_order, i, j) ==
    \/ query_scores[i] > query_scores[j]
    \/ query_scores[i] = query_scores[j] /\ tie_order[i] < tie_order[j]

RECURSIVE TopKIndices(_, _, _, _)
TopKIndices(query_scores, tie_order, candidates, n) ==
    IF n = 0 THEN <<>>
    ELSE LET first == CHOOSE i \in candidates :
                        \A j \in candidates \ {i} :
                            Precedes(query_scores, tie_order, i, j)
         IN  <<first>> \o TopKIndices(query_scores, tie_order,
                                      candidates \ {first}, n - 1)

\* torch.topk(input, k, dim=-1): indices and values, largest first
TopK(query_scores, n, tie_order) ==
    LET indices == TopKIndices(query_scores, tie_order, 1..Len(query_scores), n)
    IN  [indices |-> indices,
         values |-> [p \in 1..n |-> query_scores[indices[p]]]]

\* the top_k of every query; torch.topk raises on a negative k
RankTopK(all_scores, docs, kk, tie_order) ==
    IF Len(all_scores) > 0 /\ ClampK(kk, Len(docs)) < 0
    THEN Raised
    ELSE Returned([i \in 1..Len(all_scores) |->
                      TopK(all_scores[i], ClampK(kk, Len(docs)), tie_order)])

\* {"similarity": similarity, **documents[indice]}: the record's field wins
MergeRecordFirst(document, similarity) ==
    [f \in DOMAIN document \cup {"similarity"} |->
        IF f \in DOMAIN document THEN document[f] ELSE similarity]

\* {**documents[indice], "similarity": similarity}
MergeSimilarity(document, similarity) ==
    [f \in DOMAIN document \cup {"similarity"} |->
        IF f = "similarity" THEN similarity ELSE document[f]]

\* the ranked list of every query
Ranked(all_top_k, docs) ==
    [i \in 1..Len(all_top_k) |->
        [p \in 1..Len(all_top_k[i].indices) |->
            MergeSimilarity(docs[all_top_k[i].indices[p]], all_top_k[i].values[p])]]

\* the score written into the stored record itself
DocumentsMarkedByRank(docs, all_top_k) ==
    [j \in 1..Len(docs) |->
        IF \E i \in 1..Len(all_top_k) :
              \E p \in 1..Len(all_top_k[i].indices) : all_top_k[i].indices[p] = j
        THEN LET i == CHOOSE i \in 1..Len(all_top_k) :
                        \E p \in 1..Len(all_top_k[i].indices) :
                            all_top_k[i].indices[p] = j
                 p == CHOOSE p \in 1..Len(all_top_k[i].indices) :
                        all_top_k[i].indices[p] = j
             IN  MergeSimilarity(docs[j], all_top_k[i].values[p])
        ELSE docs[j]]

\* the records of the store after _rank built the ranked lists: the merge
\* builds new dictionaries
DocumentsAfterRank(docs, all_top_k) == docs

(***************************************************************************)
(* add: first write wins.                                                  *)
(***************************************************************************)
\* add without the membership test on the list
RECURSIVE AddDocumentsAlways(_, _, _)
AddDocumentsAlways(docs, items, key_field) ==
    IF Len(items) = 0 THEN docs
    ELSE AddDocumentsAlways(Append(docs, [f \in {key_field} |-> Head(items)[1]]),
                            Tail(items), key_field)

RECURSIVE AddDocuments(_, _, _)
AddDocuments(docs, items, key_field) ==
    IF Len(items) = 0 THEN docs
    ELSE LET document_key == Head(items)[1]
             present == \E i \in 1..Len(docs) : docs[i][key_field] = document_key
         IN  AddDocuments(IF present THEN docs
                          ELSE Append(docs, [f \in {key_field} |-> document_key]),
                          Tail(items), key_field)

\* add where the last write wins
RECURSIVE AddEmbeddingsLastWins(_, _)
AddEmbeddingsLastWins(embs, items) ==
    IF Len(items) = 0 THEN embs
    ELSE AddEmbeddingsLastWins(
             [d \in DOMAIN embs \cup {Head(items)[1]} |->
                 IF d = Head(items)[1] THEN Head(items)[2] ELSE embs[d]],
             Tail(items))

RECURSIVE AddEmbeddings(_, _)
AddEmbeddings(embs, items) ==
    IF Len(items) = 0 THEN embs
    ELSE LET document_key == Head(items)[1]
             tokens_embeddings == Head(items)[2]
         IN  AddEmbeddings(IF document_key \in DOMAIN embs THEN embs
                           ELSE [d \in DOMAIN embs \cup {document_key} |->
                                    IF d = document_key THEN tokens_embeddings
                                    ELSE embs[d]],
                           Tail(items))

\* history: every identifier with the embedding of the first add that held it
RECURSIVE FirstAdded(_, _)
FirstAdded(history, items) ==
    IF Len(items) = 0 THEN history
    ELSE FirstAdded(IF \E i \in 1..Len(history) : history[i][1] = Head(items)[1]
                    THEN history ELSE Append(history, Head(items)),
                    Tail(items))

\* history: one add holds an identifier stored with another embedding
Ignored(embs, items) ==
    \E i \in 1..Len(items) :
        /\ items[i][1] \in DOMAIN embs
        /\ embs[items[i][1]] # items[i][2]

(***************************************************************************)
(* The retriever.                                                          *)
(***************************************************************************)
NoCall == [status |-> "none", value |-> <<>>]

InitWith(key_fields, tie_orders) ==
    /\ key \in key_fields
    /\ topk_tie_order \in tie_orders
    /\ documents = <<>>
    /\ documents_embeddings = [d \in {} |-> <<>>]
    /\ first_added = <<>>
    /\ ignored = FALSE
    /\ queries_embeddings = <<>>
    /\ batch_size = 0
    /\ k = None
    /\ scores = NoCall
    /\ top_k = NoCall
    /\ result = NoCall

Init == InitWith(KeyFields, TieOrders)

InitScore == InitWith({"id"}, {[i \in 1..MaxDocs |-> i]})

\* add(documents_embeddings)
Add(items) ==
    /\ documents' = AddDocuments(documents, items, key)
    /\ documents_embeddings' = AddEmbeddings(documents_embeddings, items)
    /\ first_added' = FirstAdded(first_added, items)
    /\ ignored' = Ignored(documents_embeddings, items)
    /\ UNCHANGED <<key, topk_tie_order, queries_embeddings, batch_size, k,
                   scores, top_k, result>>

\* __call__(queries_embeddings, batch_size, k), the call of _rank included
Call(queries, size, kk) ==
    /\ queries_embeddings' = queries
    /\ batch_size' = size
    /\ k' = kk
    /\ scores' = Scores(queries, documents, documents_embeddings, size, key)
    /\ top_k' = IF scores'.status = "raised" THEN Raised
                ELSE RankTopK(scores'.value, documents, kk, topk_tie_order)
    /\ result' = IF top_k'.status = "raised" THEN Raised
                 ELSE Returned(Ranked(top_k'.value, documents))
    /\ documents' = IF top_k'.status = "raised" THEN documents
                    ELSE DocumentsAfterRank(documents, top_k'.value)
    /\ ignored' = FALSE
    /\ UNCHANGED <<key, topk_tie_order, documents_embeddings, first_added>>

\* the same call once more, on the store as the first call left it
CallAgain ==
    /\ result.status # "none"
    /\ Call(queries_embeddings, batch_size, k)

\* the caller drops the ranked lists (or the exception) of the last call
Discard ==
    /\ result.status # "none"
    /\ queries_embeddings' = <<>>
    /\ batch_size' = 0
    /\ k' = None
    /\ scores' = NoCall
    /\ top_k' = NoCall
    /\ result' = NoCall
    /\ UNCHANGED <<key, topk_tie_order, documents, documents_embeddings,
                   first_added, ignored>>

\* The caller holds no result of a call when it adds or calls anew.
AddStep ==
    /\ result.status = "none"
    /\ \E items \in AddArguments : Add(items)

CallStep ==
    /\ result.status = "none"
    /\ \E queries \in QueriesArguments, size \in 1..MaxBatchSize, kk \in KValues :
          Call(queries, size, kk)

Next == AddStep \/ CallStep \/ CallAgain \/ Discard

Spec == Init /\ [][Next]_vars

ScoreAddStep ==
    /\ result.status = "none"
    /\ \E items \in ScoreAddArguments : Add(items)

ScoreCallStep ==
    /\ result.status = "none"
    /\ \E queries \in ScoreQueriesArguments, size \in 1..MaxBatchSize :
          Call(queries, size, None)

NextScore == ScoreAddStep \/ ScoreCallStep \/ CallAgain \/ Discard

SpecScore == InitScore /\ [][NextScore]_vars

(***************************************************************************)
(* The late-interaction score, stated on sets: for every query token the   *)
(* largest dot product with a document token, summed over the query tokens.*)
(***************************************************************************)
TokenMaximum(query_token, document) ==
    CHOOSE m \in {DotProduct(query_token, document[t]) : t \in 1..Len(document)} :
        \A t \in 1..Len(document) : DotProduct(query_token, document[t]) <= m

RECURSIVE SumOver(_, _)
SumOver(f, S) ==
    IF S = {} THEN 0
    ELSE LET x == CHOOSE x \in S : TRUE IN f[x] + SumOver(f, S \ {x})

LateInteraction(query, document) ==
    SumOver([s \in 1..Len(query) |-> TokenMaximum(query[s], document)],
            1..Len(query))

StoredEmbedding(j) == documents_embeddings[documents[j][key]]

\* the p-th largest value of a score vector, whatever the order of equal values
IsPthLargest(v, p, vector) ==
    /\ Cardinality({j \in 1..Len(vector) : vector[j] > v}) < p
    /\ p <= Cardinality({j \in 1..Len(vector) : vector[j] >= v})

(***************************************************************************)
(* C1: the score __call__ computes for a query of at least one token and a *)
(* stored document of at least one token is the sum over the query tokens  *)
(* of the largest dot product with a document token, on the embeddings as  *)
(* given (nothing is normalised).                                          *)
(***************************************************************************)
C1_ScoreIsSumOfMaxima ==
    scores.status = "returned" =>
        \A i \in 1..Len(queries_embeddings) : \A j \in 1..Len(documents) :
            (Len(queries_embeddings[i]) >= 1 /\ Len(StoredEmbedding(j)) >= 1) =>
                scores.value[i][j]
                    = LateInteraction(queries_embeddings[i], StoredEmbedding(j))

\* two different documents of two different tokens each in one batch and a
\* query of two different tokens
C1_Witness ==
    /\ scores.status = "returned"
    /\ Len(documents) = 2
    /\ batch_size = 2
    /\ Len(queries_embeddings[1]) = 2
    /\ queries_embeddings[1][1] # queries_embeddings[1][2]
    /\ \A j \in 1..2 : /\ Len(StoredEmbedding(j)) = 2
                       /\ StoredEmbedding(j)[1] # StoredEmbedding(j)[2]
    /\ StoredEmbedding(1) # StoredEmbedding(2)
    /\ scores.value[1][1] = 3

(***************************************************************************)
(* C2: _rank returns, for every query, min(k, N) entries (all N documents  *)
(* when k is None or larger than N, none when k = 0): different documents, *)
(* each with its own score, in non-increasing order of score, and no       *)
(* document left out has a higher score than one selected; a call whose    *)
(* scoring succeeded with k None or k >= 0 returns.                        *)
(***************************************************************************)
C2_TopKCorrect ==
    /\ (scores.status = "returned" /\ (k = None \/ k[1] >= 0))
            => result.status = "returned"
    /\ result.status = "returned" =>
        LET N == Len(documents)
            n == IF k = None THEN N ELSE IF k[1] > N THEN N ELSE k[1]
        IN  \A i \in 1..Len(scores.value) :
                LET indices == top_k.value[i].indices
                    values == top_k.value[i].values
                    ranked == result.value[i]
                IN  /\ Len(ranked) = n
                    /\ Len(indices) = n
                    /\ Len(values) = n
                    /\ \A p \in 1..n : indices[p] \in 1..N
                    /\ \A p, q \in 1..n : p # q => indices[p] # indices[q]
                    /\ \A p \in 1..n :
                          /\ values[p] = scores.value[i][indices[p]]
                          /\ ranked[p]["similarity"] = scores.value[i][indices[p]]
                          /\ key # "similarity"
                                => ranked[p][key] = documents[indices[p]][key]
                    /\ \A p, q \in 1..n : p < q => values[p] >= values[q]
                    /\ \A j \in 1..N :
                          (\A p \in 1..n : indices[p] # j) =>
                              \A p \in 1..n : scores.value[i][j] <= values[p]

\* k = 1 on two documents, the second one scoring higher
C2_Witness ==
    /\ result.status = "returned"
    /\ Len(documents) = 2
    /\ k = <<1>>
    /\ Len(scores.value) >= 1
    /\ scores.value[1][2] > scores.value[1][1]
    /\ top_k.value[1].indices = <<2>>

(***************************************************************************)
(* C3: on a store whose documents have one token or more each (the counts  *)
(* may differ), the outcome of scoring a query of one token or more (every *)
(* score, and whether scores are produced) is the same for every batch     *)
(* size, and every document's score is the one it gets when scored alone.  *)
(***************************************************************************)
C3_BatchInvariance ==
    (/\ scores.status # "none"
     /\ \A i \in 1..Len(queries_embeddings) : Len(queries_embeddings[i]) >= 1
     /\ \A j \in 1..Len(documents) : Len(StoredEmbedding(j)) >= 1) =>
        /\ \A size \in 1..MaxBatchSize :
              Scores(queries_embeddings, documents, documents_embeddings,
                     size, key) = scores
        /\ \A j \in 1..Len(documents) :
              LET alone == Scores(queries_embeddings, <<documents[j]>>,
                                  documents_embeddings, 1, key)
              IN  /\ alone.status = scores.status
                  /\ scores.status = "returned" =>
                        \A i \in 1..Len(queries_embeddings) :
                            alone.value[i][1] = scores.value[i][j]

(***************************************************************************)
(* C4: among the documents _rank selects, equal scores appear in order of  *)
(* insertion, and of two documents with equal scores at the k-th place the *)
(* one inserted first is kept.                                             *)
(***************************************************************************)
C4_TieStability ==
    result.status = "returned" =>
        \A i \in 1..Len(scores.value) :
            LET indices == top_k.value[i].indices
                n == Len(indices)
            IN  /\ \A p, q \in 1..n :
                      (p < q /\ scores.value[i][indices[p]]
                                    = scores.value[i][indices[q]])
                          => indices[p] < indices[q]
                /\ \A p \in 1..n : \A j \in 1..Len(documents) :
                      ((\A q \in 1..n : indices[q] # j)
                            /\ scores.value[i][j] = scores.value[i][indices[p]])
                          => indices[p] < j

(***************************************************************************)
(* C5: the embedding stored for an identifier is the one of the first add  *)
(* that held the identifier; an add that holds it again changes neither    *)
(* the stored embedding nor the list of documents.                         *)
(***************************************************************************)
C5_FirstAddWins ==
    /\ \A i \in 1..Len(first_added) :
          /\ first_added[i][1] \in DOMAIN documents_embeddings
          /\ documents_embeddings[first_added[i][1]] = first_added[i][2]
    /\ Len(documents) = Len(first_added)

\* the last add held a stored identifier with another embedding
C5_Witness == ignored /\ Len(documents) = 1

(***************************************************************************)
(* C6: the identifiers of self.documents are exactly the keys of           *)
(* self.documents_embeddings, each once, in the order of first insertion.  *)
(***************************************************************************)
C6_StoreInvariant ==
    /\ {documents[i][key] : i \in 1..Len(documents)} = DOMAIN documents_embeddings
    /\ \A i, j \in 1..Len(documents) :
          i # j => documents[i][key] # documents[j][key]
    /\ Len(documents) = Len(first_added)
    /\ \A i \in 1..Len(documents) :
          /\ DOMAIN documents[i] = {key}
          /\ documents[i][key] = first_added[i][1]

\* a full store, after a call
C6_Witness ==
    /\ Len(documents) = MaxDocs
    /\ result.status = "returned"
    /\ Len(result.value) >= 1

(***************************************************************************)
(* C7: a call with a query of zero tokens, or with a stored document of    *)
(* zero tokens, raises; it never returns ranked lists.                     *)
(***************************************************************************)
C7_EmptySequenceRaises ==
    (/\ result.status # "none"
     /\ \/ \E i \in 1..Len(queries_embeddings) : Len(queries_embeddings[i]) = 0
        \/ /\ Len(queries_embeddings) >= 1
           /\ \E j \in 1..Len(documents) : Len(StoredEmbedding(j)) = 0)
        => result.status = "raised"

(***************************************************************************)
(* C8: a call that returns gives one ranked list per query, and the i-th   *)
(* list holds the scores of the i-th query: its p-th entry carries the     *)
(* p-th largest late-interaction score of query i over the store, and the  *)
(* document it names has that score for query i.                           *)
(***************************************************************************)
C8_OrderPreservation ==
    result.status = "returned" =>
        /\ Len(result.value) = Len(queries_embeddings)
        /\ \A i \in 1..Len(queries_embeddings) :
              LET reference ==
                      [j \in 1..Len(documents) |->
                          LateInteraction(queries_embeddings[i], StoredEmbedding(j))]
              IN  \A p \in 1..Len(result.value[i]) :
                      /\ IsPthLargest(result.value[i][p]["similarity"], p, reference)
                      /\ key # "similarity" =>
                            \E j \in 1..Len(documents) :
                                /\ documents[j][key] = result.value[i][p][key]
                                /\ reference[j] = result.value[i][p]["similarity"]

\* two queries that rank two documents in opposite orders
C8_Witness ==
    /\ result.status = "returned"
    /\ Len(queries_embeddings) = 2
    /\ Len(documents) = 2
    /\ Len(result.value[1]) = 2
    /\ key = "id"
    /\ result.value[1][1]["id"] = result.value[2][2]["id"]
    /\ result.value[1][1]["similarity"] > result.value[1][2]["similarity"]
    /\ result.value[2][1]["similarity"] > result.value[2][2]["similarity"]

(***************************************************************************)
(* C9: every entry of a ranked list has the fields of the selected         *)
(* document's record and the field similarity; similarity is the score of  *)
(* that document for that query, also when the record has a field of that  *)
(* name, and every other field has the record's value.                     *)
(***************************************************************************)
C9_EntryFields ==
    result.status = "returned" =>
        \A i \in 1..Len(result.value) : \A p \in 1..Len(result.value[i]) :
            LET entry == result.value[i][p]
                indice == top_k.value[i].indices[p]
                document == documents[indice]
            IN  /\ DOMAIN entry = DOMAIN document \cup {"similarity"}
                /\ entry["similarity"] = scores.value[i][indice]
                /\ \A f \in DOMAIN document \ {"similarity"} : entry[f] = document[f]

\* the key field of the retriever is itself named similarity
C9_Witness ==
    /\ result.status = "returned"
    /\ key = "similarity"
    /\ Len(result.value) >= 1
    /\ Len(result.value[1]) >= 1
    /\ "similarity" \in DOMAIN documents[top_k.value[1].indices[1]]

(***************************************************************************)
(* C10: a call, returning or raising, leaves self.documents and            *)
(* self.documents_embeddings as they were, and the same call made again    *)
(* returns what the first one returned.                                    *)
(***************************************************************************)
C10_ReadOnly ==
    [][result'.status # "none" =>
          /\ documents' = documents
          /\ documents_embeddings' = documents_embeddings
          /\ result.status # "none" => result' = result]_vars

\* a call returned entries built from the stored records
C10_Witness ==
    /\ result.status = "returned"
    /\ Len(result.value) >= 1
    /\ Len(result.value[1]) >= 2

====
